---- MODULE Spec2Model ----
(***************************************************************************)
(* lint/persist.py of SublimeLinter3: the Daemon (a queue consumed by one  *)
(* worker thread that debounces lint requests per view) and the Settings   *)
(* object (settings, previous_settings and the on_update pass).            *)
(*                                                                         *)
(* Time is the value of time.monotonic(), counted in units of 0.1 s, so    *)
(* that Daemon.MIN_DELAY = 0.1 is one unit.                                *)
(***************************************************************************)
EXTENDS Integers, Sequences, FiniteSets, TLC

\* ------------------------------------------------------------------ bounds
MaxTime == 3
MaxHits == 2
MaxStarts == 2
MaxDelays == 1
MaxPuts == 1
MaxOps == 3
MaxBurstTime == 8
MaxBurst == 4
MaxCalls == 4
MaxCloses == 2

\* --------------------------------------------------------------- constants
\* Daemon.MIN_DELAY = 0.1, in units of 0.1 s
MIN_DELAY == 1
\* time units per second (the unit is 0.1 s)
UnitsPerSecond == 10

\* Python's None where a number is expected, and a key that a dict does not have
None == 0 - 1
Absent == 0 - 1
Views == {1, 2}
Producers == {"main", "async"}
\* the "delay" of each view's rc settings (util.get_view_rc_settings), None if it has none,
\* and the values of the global "delay" setting
ViewRc == [v \in Views |-> IF v = 1 THEN None ELSE 1]
GlobalDelays == {None, 3}
\* arguments of Daemon.delay(milliseconds)
Milliseconds == {0 - 100, 100, 200}

VARIABLES
    now,              \* time.monotonic()
    running,          \* Daemon.running
    threads,          \* number of threads started on Daemon.loop
    q,                \* Daemon.q
    self_last_runs,   \* Daemon.last_runs (self.last_runs): view id -> time of its last lint
    last_runs,        \* the local last_runs of loop(): view id -> (timestamp, delay), in insertion order
    pc,               \* where the worker thread is in loop()
    item,             \* the local item of loop(): the last message q.get returned
    scan,             \* what is left of last_runs.copy().items() in the Empty branch
    timer,            \* the time left of q.get's timeout, or of time.sleep
    hitting,          \* per producer thread: the request hit() has stamped and not yet put
    log,              \* the worker's outputs in order: callback invocations and printf lines
    hitlog,           \* the requests hit() has stamped, in order
    returned,         \* what the last hit() that returned has returned
    puts,             \* how often start() and delay() were called, and other objects put on q
    settings,         \* Settings.settings
    previous_settings,\* Settings.previous_settings
    plugin_settings,  \* SublimeLinter.sublime-settings, and whether Settings.plugin_settings holds it
    on_update_callback, \* Settings.on_update_callback is set
    last,             \* the last Settings operation and what it did
    ops,              \* number of Settings operations so far
    errors,           \* the module's errors: view id -> errors
    highlights,       \* the module's highlights: view id -> HighlightSet
    linters,          \* the module's linters: view id -> set of linter instances
    views,            \* the module's views: view id -> view
    closed            \* the calls of view_did_close so far: the id, the time, the mappings that held it

daemonVars == <<now, running, threads, q, self_last_runs, last_runs, pc, item, scan, timer,
                hitting, log, hitlog, puts, returned>>
settingsVars == <<settings, previous_settings, plugin_settings, on_update_callback, last, ops>>
storeVars == <<errors, highlights, linters, views, closed>>
vars == <<daemonVars, settingsVars, storeVars>>

\* ================================================================= Settings

Keys == {"@disable", "paths", "python_paths", "syntax_map", "linters", "gutter_theme", "delay"}
\* the values a setting can have; for "@disable" 0 is False and 1 is True
Values == {0, 1}

\* dict.get(key, default)
Get(d, key, default) == IF d[key] = Absent THEN default ELSE d[key]

EmptyDict == [k \in Keys |-> Absent]

\* the "default" section of SublimeLinter.sublime-settings as the plugin ships it
ShippedDefaults == [k \in Keys |-> IF k \in {"@disable", "gutter_theme"} THEN 0 ELSE Absent]

\* no Settings operation yet
NoOp == [op |-> "none", key |-> "", value |-> Absent, pass |-> FALSE,
         need_relint |-> FALSE, reloads |-> 0, callback |-> <<>>, effects |-> {}]

\* util.merge_user_settings(self.plugin_settings): the "user" section over the "default" one
merge_user_settings(ps) ==
    [k \in Keys |-> IF ps.user[k] # Absent THEN ps.user[k] ELSE ps.default[k]]

\* on_update, lines 104-106: settings.clear(); settings.update(merged)
Merged == merge_user_settings(plugin_settings)

\* a pass that forgets the linters' own settings
NeedRelintButLinters(prev, cur) ==
    \/ Get(prev, "@disable", 0) # Get(cur, "@disable", 0)
    \/ \E k \in {"paths", "python_paths", "syntax_map"} : prev[k] # cur[k]

\* on_update, lines 107-133: need_relint, computed from previous_settings and the new settings
NeedRelint(prev, cur) ==
    LET disable == Get(prev, "@disable", 0) # Get(cur, "@disable", 0)
        paths == prev["paths"] # cur["paths"]
        python_paths == prev["python_paths"] # cur["python_paths"]
        syntax_map == prev["syntax_map"] # cur["syntax_map"]
        before_linters == disable \/ paths \/ python_paths \/ syntax_map
    IN  before_linters \/ (~before_linters /\ prev["linters"] # cur["linters"])

\* on_update, lines 110-137: what else the pass does
Effects(prev, cur) ==
    (IF prev["paths"] # cur["paths"] THEN {"clear_caches"} ELSE {})
    \cup (IF prev["python_paths"] # cur["python_paths"] THEN {"python_paths"} ELSE {})
    \cup (IF prev["syntax_map"] # cur["syntax_map"] THEN {"clear_all", "assign"} ELSE {})
    \cup (IF prev["gutter_theme"] # cur["gutter_theme"] THEN {"update_gutter_marks"} ELSE {})

\* a pass that ends by taking the new settings as the previous ones
PassSnapshots(op) ==
    /\ settings' = Merged
    /\ last' = [NoOp EXCEPT !.op = op, !.pass = TRUE]
    /\ previous_settings' = Merged

\* on_update, lines 95-143, as the outcome of the operation op
Pass(op) ==
    LET need_relint == NeedRelint(previous_settings, Merged)
    IN  /\ settings' = Merged
        /\ last' = [op |-> op, key |-> "", value |-> Absent, pass |-> TRUE,
                    need_relint |-> need_relint,
                    reloads |-> IF need_relint THEN 1 ELSE 0,
                    callback |-> IF on_update_callback THEN <<need_relint>> ELSE <<>>,
                    effects |-> Effects(previous_settings, Merged)]
        /\ UNCHANGED previous_settings

\* the settings' change notification, or any other call of Settings.on_update
OnUpdate ==
    /\ ops < MaxOps
    /\ ops' = ops + 1
    /\ plugin_settings.loaded
    /\ Pass("on_update")
    /\ UNCHANGED <<plugin_settings, on_update_callback>>
    /\ UNCHANGED daemonVars
    /\ UNCHANGED storeVars

\* a load() that runs its pass every time
LoadsAlways(force) == TRUE

\* load, line 54: if force or not self.settings
Loads(force) == force \/ settings = EmptyDict

\* Settings.load(force)
Load(force) ==
    /\ ops < MaxOps
    /\ ops' = ops + 1
    /\ IF Loads(force)
       THEN /\ plugin_settings' = [plugin_settings EXCEPT !.loaded = TRUE]
            /\ Pass("load")
       ELSE /\ last' = [NoOp EXCEPT !.op = "load"]
            /\ UNCHANGED <<settings, previous_settings, plugin_settings>>
    /\ UNCHANGED on_update_callback
    /\ UNCHANGED daemonVars
    /\ UNCHANGED storeVars

\* a copy() that leaves previous_settings as it was
CopiedNothing == previous_settings

\* copy, line 76: deepcopy(self.settings)
Copied == settings

\* set, line 72: self.settings[setting] = value
SetItem(d, setting, value) == [d EXCEPT ![setting] = value]

\* Settings.set(setting, value)
Set(setting, value) ==
    /\ ops < MaxOps
    /\ ops' = ops + 1
    /\ previous_settings' = Copied
    /\ settings' = SetItem(settings, setting, value)
    /\ last' = [NoOp EXCEPT !.op = "set", !.key = setting, !.value = value]
    /\ UNCHANGED <<plugin_settings, on_update_callback>>
    /\ UNCHANGED daemonVars
    /\ UNCHANGED storeVars

\* Settings.copy()
Copy ==
    /\ ops < MaxOps
    /\ ops' = ops + 1
    /\ previous_settings' = Copied
    /\ last' = [NoOp EXCEPT !.op = "copy"]
    /\ UNCHANGED <<settings, plugin_settings, on_update_callback>>
    /\ UNCHANGED daemonVars
    /\ UNCHANGED storeVars

\* Settings.on_update_call(callback)
OnUpdateCall ==
    /\ ops < MaxOps
    /\ ops' = ops + 1
    /\ on_update_callback' = TRUE
    /\ last' = [NoOp EXCEPT !.op = "on_update_call"]
    /\ UNCHANGED <<settings, previous_settings, plugin_settings>>
    /\ UNCHANGED daemonVars
    /\ UNCHANGED storeVars

\* the user edits the "user" section of SublimeLinter.sublime-settings
FileChange(setting, value) ==
    /\ ops < MaxOps
    /\ ops' = ops + 1
    /\ plugin_settings.user[setting] # value
    /\ plugin_settings' = [plugin_settings EXCEPT !.user[setting] = value]
    /\ last' = [NoOp EXCEPT !.op = "file", !.key = setting, !.value = value]
    /\ UNCHANGED <<settings, previous_settings, on_update_callback>>
    /\ UNCHANGED daemonVars
    /\ UNCHANGED storeVars

\* ================================================================== Daemon

Msg(kind, view, ts, delay) == [kind |-> kind, view |-> view, ts |-> ts, delay |-> delay]
Out(kind, view, ts, at) == [kind |-> kind, view |-> view, ts |-> ts, at |-> at]

\* no request: hit() is not running in this thread
NoRequest == Msg("none", 0, 0, 0)

\* self.last_runs[view_id] = t
DictPut(d, view_id, t) == [v \in DOMAIN d \cup {view_id} |-> IF v = view_id THEN t ELSE d[v]]

\* Daemon.get_delay: the view's own "delay", else the "delay" setting, else MIN_DELAY
get_delay(rc) ==
    IF rc # None THEN rc ELSE Get(settings, "delay", MIN_DELAY)

\* positions of view_id in the local last_runs (at most one)
Index(d, view_id) == {i \in 1..Len(d) : d[i].view = view_id}

\* last_runs[view_id] = timestamp, delay   (a dict keeps a key's position)
DictSet(d, view_id, timestamp, delay) ==
    LET e == [view |-> view_id, ts |-> timestamp, delay |-> delay]
    IN  IF Index(d, view_id) = {}
        THEN Append(d, e)
        ELSE [i \in 1..Len(d) |-> IF d[i].view = view_id THEN e ELSE d[i]]

\* a del that leaves the entry where it is
DictKeep(d, view_id) == d

\* del last_runs[view_id]
DictDel(d, view_id) == SelectSeq(d, LAMBDA e : e.view # view_id)

\* ------------------------------------------------------------- producers

\* a start() that starts a thread whatever self.running is
StartAlwaysSpawns == TRUE

\* Daemon.start, line 273: if self.running
StartSpawns == ~running

\* Daemon.start(callback): the first call starts the thread, the later ones put 'reload'
Start ==
    /\ puts.start < MaxStarts
    /\ puts' = [puts EXCEPT !.start = @ + 1]
    /\ IF StartSpawns
       THEN /\ running' = TRUE
            /\ threads' = threads + 1
            /\ pc' = "get"
            /\ timer' = MIN_DELAY
            /\ UNCHANGED q
       ELSE /\ q' = Append(q, Msg("reload", 0, 0, 0))
            /\ UNCHANGED <<running, threads, pc, timer>>
    /\ UNCHANGED <<now, self_last_runs, last_runs, scan, hitting, log, hitlog>>
    /\ UNCHANGED <<item, returned>>
    /\ UNCHANGED settingsVars
    /\ UNCHANGED storeVars

\* Daemon.hit, line 330: timestamp = time.monotonic()
HitStamp(p, view_id, rc, limit) ==
    /\ hitting[p] = NoRequest
    /\ Len(hitlog) < limit
    /\ LET m == Msg("tuple", view_id, now, get_delay(rc))
       IN  /\ hitting' = [hitting EXCEPT ![p] = m]
           /\ hitlog' = Append(hitlog, m)
    /\ UNCHANGED <<now, running, threads, q, self_last_runs, last_runs, pc, scan, timer,
                   log, puts>>
    /\ UNCHANGED <<item, returned>>
    /\ UNCHANGED settingsVars
    /\ UNCHANGED storeVars

\* a hit() that reads the clock again for what it returns
HitReturnsClock(timestamp) == now

\* Daemon.hit, line 332: return timestamp
HitReturns(timestamp) == timestamp

\* Daemon.hit, line 331: self.q.put((view.id(), timestamp, self.get_delay(view)))
HitPut(p) ==
    /\ hitting[p] # NoRequest
    /\ q' = Append(q, hitting[p])
    /\ hitting' = [hitting EXCEPT ![p] = NoRequest]
    /\ UNCHANGED <<now, running, threads, self_last_runs, last_runs, pc, scan, timer,
                   log, hitlog, puts>>
    /\ UNCHANGED item
    /\ returned' = HitReturns(hitting[p].ts)
    /\ UNCHANGED settingsVars
    /\ UNCHANGED storeVars

\* Daemon.hit(view), lines 330-331 with nothing happening in between
Hit(p, view_id, rc, limit) ==
    /\ hitting[p] = NoRequest
    /\ Len(hitlog) < limit
    /\ LET m == Msg("tuple", view_id, now, get_delay(rc))
       IN  /\ q' = Append(q, m)
           /\ hitlog' = Append(hitlog, m)
    /\ UNCHANGED <<now, running, threads, self_last_runs, last_runs, pc, scan, timer,
                   hitting, log, puts>>
    /\ UNCHANGED item
    /\ returned' = HitReturns(now)
    /\ UNCHANGED settingsVars
    /\ UNCHANGED storeVars

\* milliseconds / 1000.0, in time units
Seconds(milliseconds) == (milliseconds * UnitsPerSecond) \div 1000

\* Daemon.delay(milliseconds): self.q.put(milliseconds / 1000.0)
Delay(milliseconds) ==
    /\ puts.num < MaxDelays
    /\ puts' = [puts EXCEPT !.num = @ + 1]
    /\ q' = Append(q, Msg("num", 0, 0, Seconds(milliseconds)))
    /\ UNCHANGED <<now, running, threads, self_last_runs, last_runs, pc, scan, timer,
                   hitting, log, hitlog>>
    /\ UNCHANGED <<item, returned>>
    /\ UNCHANGED settingsVars
    /\ UNCHANGED storeVars

\* what else a q.put(x) can put: a string that is not 'reload', a tuple that is no
\* (view_id, timestamp, delay), any other object
OtherKinds == {"str", "badtuple", "obj"}

Put(kind) ==
    /\ puts.other < MaxPuts
    /\ puts' = [puts EXCEPT !.other = @ + 1]
    /\ q' = Append(q, Msg(kind, 0, 0, 0))
    /\ UNCHANGED <<now, running, threads, self_last_runs, last_runs, pc, scan, timer,
                   hitting, log, hitlog>>
    /\ UNCHANGED <<item, returned>>
    /\ UNCHANGED settingsVars
    /\ UNCHANGED storeVars

\* time passes, up to limit
Tick(limit) ==
    /\ now < limit
    /\ now' = now + 1
    /\ timer' = IF timer > 0 THEN timer - 1 ELSE 0
    /\ UNCHANGED <<running, threads, q, self_last_runs, last_runs, pc, scan,
                   hitting, log, hitlog, puts>>
    /\ UNCHANGED <<item, returned>>
    /\ UNCHANGED settingsVars
    /\ UNCHANGED storeVars

\* ---------------------------------------------------------------- worker

\* a scan that fires at the deadline itself
DueAtDeadline(timestamp, delay) == now >= timestamp + delay

\* loop, line 297: time.monotonic() > timestamp + delay
Due(timestamp, delay) == now > timestamp + delay

\* a check that never finds a request superseded
SupersededNever(view_id, timestamp) == FALSE

\* loop, line 307: view_id in self.last_runs and timestamp < self.last_runs[view_id]
Superseded(view_id, timestamp) ==
    view_id \in DOMAIN self_last_runs /\ timestamp < self_last_runs[view_id]

\* loop, lines 318-319: self.last_runs.clear(); last_runs.clear()
ClearedRuns == [v \in {} |-> 0]

\* a reload that forgets the local table
PendingKept == last_runs

ClearedPending == <<>>

\* an except clause that leaves the loop
DiesOnError == "dead"

\* loop, lines 322-326: the except clause prints and the while loop goes on
AfterError == "get"

\* the worker is back at q.get(block=True, timeout=self.MIN_DELAY)
BackToGet ==
    /\ pc' = "get"
    /\ timer' = MIN_DELAY

\* loop, lines 322-326: an exception in the body of the loop; the traceback that is
\* printed shows the view whose callback raised (0: no callback was running)
OnError(view_id) ==
    /\ log' = Append(log, Out("error", view_id, 0, 0))
    /\ pc' = AfterError
    /\ timer' = MIN_DELAY

\* a worker that lints a request at once when it is due on arrival
OnTupleLintsDue(m) ==
    /\ IF Due(m.ts, m.delay)
       THEN /\ log' = Append(log, Out("lint", m.view, m.ts, now))
            /\ last_runs' = last_runs
       ELSE /\ log' = log
            /\ last_runs' = DictSet(last_runs, m.view, m.ts, m.delay)
    /\ BackToGet
    /\ UNCHANGED self_last_runs

\* loop, lines 304-310: a (view_id, timestamp, delay) tuple
OnTuple(m) ==
    /\ IF Superseded(m.view, m.ts)
       THEN last_runs' = last_runs
       ELSE last_runs' = DictSet(last_runs, m.view, m.ts, m.delay)
    /\ BackToGet
    /\ UNCHANGED <<self_last_runs, log>>

\* a worker that takes a number and does not sleep
OnNumberNoSleep(m) ==
    /\ BackToGet
    /\ UNCHANGED <<self_last_runs, last_runs, log>>

\* loop, lines 312-313: time.sleep(item)
OnNumber(m) ==
    /\ IF m.delay < 0
       THEN OnError(0)    \* ValueError: sleep length must be non-negative
       ELSE pc' = "sleep" /\ timer' = m.delay /\ log' = log
    /\ UNCHANGED <<self_last_runs, last_runs>>

\* loop, lines 315-319: a string; only 'reload' does anything
OnString(m) ==
    /\ IF m.kind = "reload"
       THEN /\ log' = Append(log, Out("reload", 0, 0, 0))
            /\ self_last_runs' = ClearedRuns
            /\ last_runs' = ClearedPending
       ELSE UNCHANGED <<self_last_runs, last_runs, log>>
    /\ BackToGet

\* an else branch that prints nothing
OnOtherQuiet(m) ==
    /\ BackToGet
    /\ UNCHANGED <<self_last_runs, last_runs, log>>

\* loop, lines 320-321: printf('unknown message sent to daemon:', item)
OnOther(m) ==
    /\ log' = Append(log, Out("unknown", 0, 0, 0))
    /\ BackToGet
    /\ UNCHANGED <<self_last_runs, last_runs>>

\* loop, line 292 returns an item, lines 304-321 handle it
Receive ==
    /\ pc = "get"
    /\ q # <<>>
    /\ q' = Tail(q)
    /\ item' = Head(q)
    /\ LET m == Head(q)
       IN  CASE m.kind = "tuple" -> OnTuple(m)
             [] m.kind = "badtuple" ->
                    \* line 305: the unpacking raises ValueError
                    OnError(0) /\ UNCHANGED <<self_last_runs, last_runs>>
             [] m.kind = "num" -> OnNumber(m)
             [] m.kind \in {"reload", "str"} -> OnString(m)
             [] OTHER -> OnOther(m)
    /\ UNCHANGED <<now, running, threads, scan, hitting, hitlog, puts, returned>>
    /\ UNCHANGED settingsVars
    /\ UNCHANGED storeVars

\* loop, line 313: time.sleep(item) returns
Wake ==
    /\ pc = "sleep"
    /\ timer = 0
    /\ BackToGet
    /\ UNCHANGED <<now, running, threads, q, self_last_runs, last_runs, scan,
                   hitting, log, hitlog, puts>>
    /\ UNCHANGED <<item, returned>>
    /\ UNCHANGED settingsVars
    /\ UNCHANGED storeVars

\* loop, lines 293-294: q.get raises Empty after MIN_DELAY; the scan of last_runs.copy() begins
Timeout ==
    /\ pc = "get"
    /\ q = <<>>
    /\ timer = 0
    /\ scan' = last_runs
    /\ pc' = "scan"
    /\ UNCHANGED <<now, running, threads, q, self_last_runs, last_runs, timer,
                   hitting, log, hitlog, puts>>
    /\ UNCHANGED <<item, returned>>
    /\ UNCHANGED settingsVars
    /\ UNCHANGED storeVars

\* loop, line 297: the next item of the copy is tested against the clock
ScanItem ==
    /\ pc = "scan"
    /\ scan # <<>>
    /\ IF Due(Head(scan).ts, Head(scan).delay)
       THEN pc' = "fire" /\ scan' = scan
       ELSE pc' = "scan" /\ scan' = Tail(scan)
    /\ UNCHANGED <<now, running, threads, q, self_last_runs, last_runs, timer,
                   hitting, log, hitlog, puts>>
    /\ UNCHANGED <<item, returned>>
    /\ UNCHANGED settingsVars
    /\ UNCHANGED storeVars

\* loop, lines 298-300: record the run, delete the request, call self.lint(view_id, timestamp)
Fire ==
    /\ pc = "fire"
    /\ LET e == Head(scan)
       IN  /\ self_last_runs' = DictPut(self_last_runs, e.view, now)
           /\ last_runs' = DictDel(last_runs, e.view)
           /\ log' = Append(log, Out("lint", e.view, e.ts, now))
    /\ pc' = "lint"
    /\ UNCHANGED <<now, running, threads, q, scan, timer, hitting, hitlog, puts>>
    /\ UNCHANGED <<item, returned>>
    /\ UNCHANGED settingsVars
    /\ UNCHANGED storeVars

\* the callback returns: the for loop goes to the next item
LintReturns ==
    /\ pc = "lint"
    /\ scan' = Tail(scan)
    /\ pc' = "scan"
    /\ UNCHANGED <<now, running, threads, q, self_last_runs, last_runs, timer,
                   hitting, log, hitlog, puts>>
    /\ UNCHANGED <<item, returned>>
    /\ UNCHANGED settingsVars
    /\ UNCHANGED storeVars

\* the callback raises: the for loop is left through the except clause
LintRaises ==
    /\ pc = "lint"
    /\ OnError(Head(scan).view)
    /\ scan' = <<>>
    /\ UNCHANGED <<now, running, threads, q, self_last_runs, last_runs,
                   hitting, hitlog, puts>>
    /\ UNCHANGED <<item, returned>>
    /\ UNCHANGED settingsVars
    /\ UNCHANGED storeVars

\* loop, line 302: the for loop is over, continue
ScanDone ==
    /\ pc = "scan"
    /\ scan = <<>>
    /\ BackToGet
    /\ UNCHANGED <<now, running, threads, q, self_last_runs, last_runs, scan,
                   hitting, log, hitlog, puts>>
    /\ UNCHANGED <<item, returned>>
    /\ UNCHANGED settingsVars
    /\ UNCHANGED storeVars

\* ------------------------------------------------------ persistent storage

\* what a mapping holds for a view id
Entry(name, vid) == <<name, vid>>

\* a mapping that holds an entry for each id of ids
Holding(name, ids) == [v \in ids |-> Entry(name, v)]

\* a view_did_close that leaves the mapping as it is
DelNothing(d, vid) == d

\* view_did_close, lines 418-428: if vid in d: del d[vid]
Del(d, vid) == IF vid \in DOMAIN d THEN [v \in DOMAIN d \ {vid} |-> d[v]] ELSE d

\* the names of the mappings that hold vid
HeldIn(vid) ==
    {n \in {"errors", "highlights", "linters", "views"} :
        vid \in DOMAIN (CASE n = "errors" -> errors
                           [] n = "highlights" -> highlights
                           [] n = "linters" -> linters
                           [] OTHER -> views)}

\* a view_did_close that takes the view's request from the worker's table as well
ViewDidClosePurges(vid) ==
    /\ Len(closed) < MaxCloses
    /\ closed' = Append(closed, [vid |-> vid, at |-> now, had |-> HeldIn(vid)])
    /\ errors' = Del(errors, vid)
    /\ highlights' = Del(highlights, vid)
    /\ linters' = Del(linters, vid)
    /\ views' = Del(views, vid)
    /\ last_runs' = DictDel(last_runs, vid)
    /\ UNCHANGED <<now, running, threads, q, self_last_runs, pc, item, scan, timer,
                   hitting, log, hitlog, puts, returned>>
    /\ UNCHANGED settingsVars

\* view_did_close(vid)
ViewDidClose(vid) ==
    /\ Len(closed) < MaxCloses
    /\ closed' = Append(closed, [vid |-> vid, at |-> now, had |-> HeldIn(vid)])
    /\ errors' = Del(errors, vid)
    /\ highlights' = Del(highlights, vid)
    /\ linters' = Del(linters, vid)
    /\ views' = Del(views, vid)
    /\ UNCHANGED daemonVars
    /\ UNCHANGED settingsVars

\* ------------------------------------------------------- the specification

\* every view is open and tracked in the four mappings
InitStore ==
    /\ errors = Holding("errors", Views)
    /\ highlights = Holding("highlights", Views)
    /\ linters = Holding("linters", Views)
    /\ views = Holding("views", Views)
    /\ closed = <<>>


\* Settings.__init__, with the settings file as shipped or missing
InitSettings ==
    /\ settings = EmptyDict
    /\ previous_settings = EmptyDict
    /\ \E d \in {EmptyDict, ShippedDefaults} :
          plugin_settings = [loaded |-> FALSE, default |-> d, user |-> EmptyDict]
    /\ on_update_callback = FALSE
    /\ last = NoOp
    /\ ops = 0

InitDaemon ==
    /\ now = 0
    /\ running = FALSE
    /\ threads = 0
    /\ q = <<>>
    /\ self_last_runs = [v \in {} |-> 0]
    /\ last_runs = <<>>
    /\ pc = "off"
    /\ item = NoRequest
    /\ scan = <<>>
    /\ timer = 0
    /\ hitting = [p \in Producers |-> NoRequest]
    /\ log = <<>>
    /\ hitlog = <<>>
    /\ puts = [start |-> 0, num |-> 0, other |-> 0]
    /\ returned = None

\* the Daemon, with the "delay" setting fixed at any of its values
Init ==
    /\ InitDaemon
    /\ \E d \in GlobalDelays :
          settings = [EmptyDict EXCEPT !["delay"] = IF d = None THEN Absent ELSE d]
    /\ previous_settings = EmptyDict
    /\ plugin_settings = [loaded |-> FALSE, default |-> ShippedDefaults, user |-> EmptyDict]
    /\ on_update_callback = FALSE
    /\ last = NoOp
    /\ ops = 0
    /\ InitStore

Next ==
    \/ Start
    \/ \E p \in Producers, v \in Views : HitStamp(p, v, ViewRc[v], MaxHits)
    \/ \E p \in Producers : HitPut(p)
    \/ Tick(MaxTime)
    \/ Receive
    \/ Timeout
    \/ ScanItem
    \/ Fire
    \/ LintReturns
    \/ LintRaises
    \/ ScanDone

Spec == Init /\ [][Next]_vars

\* the worker has nothing to run: it waits in q.get, sleeps, or the callback is running
WorkerWaits ==
    \/ pc \in {"off", "sleep", "lint"}
    \/ pc = "get" /\ q = <<>> /\ timer > 0

\* a prompt worker: views edited from one thread, a callback that never raises, and a
\* worker thread that runs whenever it can, so that time passes only while it waits
NextPrompt ==
    \/ StartSpawns /\ Start
    \/ \E v \in Views : Hit("main", v, ViewRc[v], MaxBurst)
    \/ WorkerWaits /\ Tick(MaxBurstTime)
    \/ Receive
    \/ Timeout
    \/ ScanItem
    \/ Fire
    \/ LintReturns
    \/ ScanDone

SpecPrompt == Init /\ [][NextPrompt]_vars

\* every kind of message, for one view edited from one thread
Calls == puts.start + Len(hitlog) + puts.num + puts.other

NextMessages ==
    \/ Calls < MaxCalls /\ Start
    \/ Calls < MaxCalls /\ Hit("main", 1, ViewRc[1], MaxHits)
    \/ Calls < MaxCalls /\ \E ms \in Milliseconds : Delay(ms)
    \/ Calls < MaxCalls /\ \E k \in OtherKinds : Put(k)
    \/ Tick(MaxTime)
    \/ Receive
    \/ Wake
    \/ Timeout
    \/ ScanItem
    \/ Fire
    \/ LintReturns
    \/ LintRaises
    \/ ScanDone

SpecMessages == Init /\ [][NextMessages]_vars

\* the Settings object alone
NextSettings ==
    \/ \E force \in BOOLEAN : Load(force)
    \/ OnUpdate
    \/ \E k \in Keys, v \in Values : Set(k, v)
    \/ Copy
    \/ OnUpdateCall
    \/ \E k \in Keys, v \in Values \cup {Absent} : FileChange(k, v)

InitIdle == InitDaemon /\ InitSettings /\ InitStore

SpecSettings == InitIdle /\ [][NextSettings]_vars

\* the four mappings with any of the views tracked in each
InitAnyStore ==
    /\ InitDaemon
    /\ InitSettings
    /\ \E e, h, l, w \in SUBSET Views :
          /\ errors = Holding("errors", e)
          /\ highlights = Holding("highlights", h)
          /\ linters = Holding("linters", l)
          /\ views = Holding("views", w)
    /\ closed = <<>>

NextStore == \E vid \in Views : ViewDidClose(vid)

SpecStore == InitAnyStore /\ [][NextStore]_vars

\* hit() alone, called from two threads while time passes
NextHit ==
    \/ \E p \in Producers, v \in Views : HitStamp(p, v, ViewRc[v], MaxHits)
    \/ \E p \in Producers : HitPut(p)
    \/ Tick(MaxTime)

SpecHit == Init /\ [][NextHit]_vars

\* views that are edited and closed while a prompt worker runs
NextClose ==
    \/ StartSpawns /\ Start
    \/ \E v \in Views : Hit("main", v, ViewRc[v], MaxHits)
    \/ \E vid \in Views : ViewDidClose(vid)
    \/ WorkerWaits /\ Tick(MaxTime)
    \/ Receive
    \/ Timeout
    \/ ScanItem
    \/ Fire
    \/ LintReturns
    \/ ScanDone

SpecClose == Init /\ [][NextClose]_vars

\* ================================================================== claims

Range(seq) == {seq[i] : i \in 1..Len(seq)}

\* the callback invocations for a view, and the requests hit() made for it, in order
Lints(v) == SelectSeq(log, LAMBDA e : e.kind = "lint" /\ e.view = v)
HitsOf(v) == SelectSeq(hitlog, LAMBDA m : m.view = v)

\* the index in log of the last 'daemon detected a reload', 0 if there is none
LastReload ==
    LET r == {i \in 1..Len(log) : log[i].kind = "reload"}
    IN  IF r = {} THEN 0 ELSE CHOOSE i \in r : \A j \in r : j <= i

\* the timestamps of the requests of a view that fired since the last reload
FiredSince(v) ==
    {log[i].ts : i \in {j \in (LastReload + 1)..Len(log) : log[j].kind = "lint" /\ log[j].view = v}}

\* nothing is left to do: the worker waits on an empty queue, no request is pending
\* and no hit() is under way
Idle ==
    /\ pc = "get"
    /\ q = <<>>
    /\ last_runs = <<>>
    /\ \A p \in Producers : hitting[p] = NoRequest

\* the hits of v so far all have one delay d and follow each other by less than d
Burst(v) ==
    LET h == HitsOf(v)
    IN  /\ Len(h) >= 1
        /\ \A i \in 1..Len(h) : h[i].delay = h[1].delay
        /\ \A i \in 1..(Len(h) - 1) : h[i + 1].ts - h[i].ts < h[1].delay

\* C1: a view that received a burst of hits (same delay d, each less than d after the
\* one before), with no reload, has had exactly one callback once the daemon is idle.
C1_ExactlyOneCallback ==
    \A v \in Views :
        (Idle /\ LastReload = 0 /\ Burst(v)) => Len(Lints(v)) = 1

\* C2: when a view is hit several times before its callback fires, with no reload, then
\* once the daemon is idle the last callback for the view carries the timestamp of the
\* most recent hit.
C2_LatestHitWins ==
    \A v \in Views :
        LET h == HitsOf(v)
            l == Lints(v)
        IN  (/\ Idle
             /\ LastReload = 0
             /\ Len(h) >= 2
             /\ Len(l) >= 1
             /\ \A i \in 1..Len(h) : h[i].ts < l[1].at)
            => l[Len(l)].ts = h[Len(h)].ts

\* the step in which the worker takes a lint request from the queue
TakesRequest == pc = "get" /\ q # <<>> /\ Head(q).kind = "tuple" /\ q' = Tail(q)

\* ... and the request is not in the pending table afterwards
Discards ==
    TakesRequest
    /\ [view |-> Head(q).view, ts |-> Head(q).ts, delay |-> Head(q).delay] \notin Range(last_runs')

\* C3: the worker discards a request only when a request of the same view with a
\* strictly newer enqueue timestamp has already fired.
C3_DiscardsOnlyOlderThanFired ==
    [][Discards => \E e \in Range(Lints(Head(q).view)) : e.ts > Head(q).ts]_vars

\* C4: a request that reaches the worker after a request of the same view with a newer
\* enqueue timestamp has fired, with no reload in between, leaves the pending table as it
\* is, and no callback for a view carries an older timestamp than an earlier callback
\* for it since the last reload.
C4_StaleRequestDropped ==
    /\ [][(TakesRequest /\ \E t \in FiredSince(Head(q).view) : t > Head(q).ts)
            => last_runs' = last_runs]_vars
    /\ [](\A i, j \in (LastReload + 1)..Len(log) :
            (i < j /\ log[i].kind = "lint" /\ log[j].kind = "lint" /\ log[i].view = log[j].view)
                => log[j].ts >= log[i].ts)

\* C4, reached: the last request the worker took is older than one that fired for its
\* view since the last reload, and it is neither pending nor was it ever fired
C4_Witness ==
    /\ pc = "get"
    /\ item.kind = "tuple"
    /\ \E t \in FiredSince(item.view) : t > item.ts
    /\ \A e \in Range(last_runs) : e.view # item.view
    /\ \A e \in Range(Lints(item.view)) : e.ts # item.ts

\* the step in which the worker invokes the callback
Invokes == pc = "fire" /\ pc' = "lint"

\* C5: the callback is invoked with the timestamp of the view's pending request, at a
\* time strictly later than that timestamp plus the request's delay.
C5_NeverFiresEarly ==
    [][Invokes =>
        \E e \in Range(last_runs) :
            /\ e.view = Head(scan).view
            /\ now > e.ts + e.delay
            /\ log' = Append(log, Out("lint", e.view, e.ts, now))]_vars

\* C5, reached: a callback is running that was invoked later than timestamp + delay
C5_Witness ==
    /\ pc = "lint"
    /\ log # <<>>
    /\ log[Len(log)].kind = "lint"
    /\ \E h \in Range(hitlog) :
          /\ h.view = log[Len(log)].view
          /\ h.ts = log[Len(log)].ts
          /\ log[Len(log)].at > h.ts + h.delay

\* the step in which the worker takes 'reload' from the queue
TakesReload == pc = "get" /\ q # <<>> /\ Head(q).kind = "reload" /\ q' = Tail(q)

\* C6: taking 'reload' empties self.last_runs and the pending table (and no copy of the
\* table is being scanned); a request taken when nothing has fired for its view since the
\* last reload is pending afterwards; and a callback only ever fires a request that is in
\* the pending table, so none that was pending before a reload.
C6_ReloadResets ==
    /\ [][TakesReload =>
            (self_last_runs' = ClearedRuns /\ last_runs' = <<>> /\ scan' = <<>>)]_vars
    /\ [][(TakesRequest /\ FiredSince(Head(q).view) = {}) => ~Discards]_vars
    /\ [][Invokes =>
            \E e \in Range(last_runs) : e.view = Head(scan).view /\ e.ts = Head(scan).ts]_vars

\* C6, reached: after a reload a request is pending whose timestamp is older than the
\* time its view was linted at before the reload
C6_Witness ==
    /\ LastReload > 0
    /\ \E e \in Range(last_runs) :
          \E i \in 1..LastReload :
              log[i].kind = "lint" /\ log[i].view = e.view /\ e.ts < log[i].at

\* the 'reload' messages put so far: those still in the queue and those the worker took
ReloadsPut ==
    Len(SelectSeq(q, LAMBDA m : m.kind = "reload"))
    + Len(SelectSeq(log, LAMBDA e : e.kind = "reload"))

\* C7: after any number of start() calls one thread runs loop(), running is set, and
\* every call but the first has put exactly one 'reload'.
C7_IdempotentStart ==
    /\ threads = (IF puts.start = 0 THEN 0 ELSE 1)
    /\ running = (puts.start > 0)
    /\ ReloadsPut = (IF puts.start = 0 THEN 0 ELSE puts.start - 1)

\* C7, reached: start() was called twice
C7_Witness == puts.start >= 2 /\ threads = 1 /\ ReloadsPut >= 1

\* the step in which the worker prints 'error in SublimeLinter daemon:'
LogsError == Len(log') = Len(log) + 1 /\ log'[Len(log')].kind = "error"

\* C8: an exception in the worker's loop, from a message or from the callback, is logged
\* and leaves the worker at q.get with the messages that were not taken yet; the worker
\* thread is always somewhere in loop().
C8_WorkerSurvivesErrors ==
    /\ [][LogsError =>
            (pc' = "get" /\ running' /\ (q' = q \/ (q # <<>> /\ q' = Tail(q))))]_vars
    /\ [](running => pc \in {"get", "scan", "fire", "lint", "sleep"})

\* C8, reached: after an error from a message and an error from the callback the worker
\* has handled a later message or fired a later callback
C8_Witness ==
    /\ \E i \in 1..Len(log) : log[i].kind = "error" /\ log[i].view = 0
    /\ \E i \in 1..Len(log) : log[i].kind = "error" /\ log[i].view # 0
    /\ log # <<>>
    /\ log[Len(log)].kind \in {"lint", "reload", "unknown"}
    /\ pc = "get"

\* a pass that follows a pass at once: the external configuration is the same in both
SecondPass == ops' = ops + 1 /\ last.pass /\ last'.pass

\* C9: the second of two passes with the same external configuration computes
\* need_relint = False, does not call Linter.reload and passes False to the callback.
C9_SecondPassNoRelint ==
    [][SecondPass =>
        (/\ ~last'.need_relint
         /\ last'.reloads = 0
         /\ last'.callback \in {<<>>, <<FALSE>>})]_vars

\* the step that is a set(key, value)
IsSet == ops' = ops + 1 /\ last'.op = "set"

\* C10: set(key, value) leaves in previous_settings the settings as they were before
\* the call, sets settings[key] to value and leaves every other key as it was.
C10_SetSnapshots ==
    [][IsSet =>
        (/\ previous_settings' = settings
         /\ settings'[last'.key] = last'.value
         /\ \A k \in Keys \ {last'.key} : settings'[k] = settings[k])]_vars

\* C10, reached: a set() changed a setting of loaded, non-empty settings
C10_Witness ==
    /\ last.op = "set"
    /\ previous_settings # EmptyDict
    /\ previous_settings # settings
    /\ settings[last.key] = last.value

\* the settings whose change asks for a relint
RelintKeys == {"@disable", "paths", "python_paths", "syntax_map", "linters"}

\* the step that is a reconciliation pass
IsPass == ops' = ops + 1 /\ last'.pass

\* the '@disable' flag of a mapping: a missing key is False
Disabled(d) == Get(d, "@disable", 0)

\* the keys of RelintKeys whose setting changed, '@disable' taken as the flag it stands for
Changed(prev, cur) ==
    {k \in RelintKeys \ {"@disable"} : prev[k] # cur[k]}
    \cup (IF Disabled(prev) # Disabled(cur) THEN {"@disable"} ELSE {})

\* C11 as stated: a pass calls Linter.reload once if the entry of at least one of the five
\* keys differs between previous_settings and the merged settings, and not at all
\* otherwise; the callback, if registered, is called once, with True exactly when
\* Linter.reload was called.
C11_RelintIffEntryDiffers ==
    [][IsPass =>
        (/\ last'.reloads = (IF \E k \in RelintKeys : previous_settings[k] # settings'[k]
                             THEN 1 ELSE 0)
         /\ last'.callback = (IF on_update_callback THEN <<last'.reloads = 1>> ELSE <<>>))]_vars

\* C11, amended: a pass calls Linter.reload once if the '@disable' flag (False when the
\* key is missing) or the entry of 'paths', 'python_paths', 'syntax_map' or 'linters'
\* differs between previous_settings and the merged settings, and not at all otherwise,
\* whatever 'gutter_theme' does; the callback, if registered, is called once, with True
\* exactly when Linter.reload was called.
C11_OneRelintPerPass ==
    [][IsPass =>
        (/\ last'.reloads = (IF Changed(previous_settings, settings') # {} THEN 1 ELSE 0)
         /\ last'.callback = (IF on_update_callback THEN <<last'.reloads = 1>> ELSE <<>>))]_vars

\* C11, reached: a pass found two of the settings changed and called Linter.reload once
C11_Witness ==
    /\ last.pass
    /\ Cardinality(Changed(previous_settings, settings)) >= 2
    /\ last.reloads = 1

\* the step that is view_did_close(vid)
Closes(vid) == Len(closed') = Len(closed) + 1 /\ closed'[Len(closed')].vid = vid

\* d2 is d1 without its entry for vid, every other entry as it was
Without(d1, d2, vid) ==
    /\ DOMAIN d2 = DOMAIN d1 \ {vid}
    /\ \A v \in DOMAIN d2 : d2[v] = d1[v]

\* C12: after view_did_close(vid) the id is a key of none of errors, highlights, linters
\* and views, and the entries of every other id are as they were; this holds as well
\* when the id was in none or only some of them.
C12_CloseRemovesView ==
    [][\A vid \in Views :
        Closes(vid) =>
            (/\ Without(errors, errors', vid)
             /\ Without(highlights, highlights', vid)
             /\ Without(linters, linters', vid)
             /\ Without(views, views', vid))]_vars

\* C12, reached: an id held by all four mappings was closed and closed again, while
\* another id is still held by some mapping
C12_Witness ==
    /\ Len(closed) = 2
    /\ closed[1].vid = closed[2].vid
    /\ closed[1].had = {"errors", "highlights", "linters", "views"}
    /\ closed[2].had = {}
    /\ HeldIn(closed[1].vid) = {}
    /\ \E v \in Views : HeldIn(v) # {}

\* the step in which hit() reads the clock, and the one in which it puts its request
Stamps == Len(hitlog') = Len(hitlog) + 1
PutsRequest == Len(q') = Len(q) + 1 /\ q'[Len(q')].kind = "tuple"

\* the delay of a view: its own "delay", else the "delay" setting, else MIN_DELAY
DelayOf(v) ==
    IF ViewRc[v] # None THEN ViewRc[v]
    ELSE IF settings["delay"] # Absent THEN settings["delay"]
    ELSE MIN_DELAY

\* C13: hit(view) reads the clock once, puts exactly one request (view id, that time,
\* delay) at the end of the queue and returns that same time; delay is the view's own
\* "delay" if it has one, else the "delay" setting if it is set, else MIN_DELAY.
C13_HitEnqueuesOne ==
    /\ [][Stamps => hitlog'[Len(hitlog')].ts = now]_vars
    /\ [][PutsRequest =>
            LET m == q'[Len(q')]
            IN  /\ q' = Append(q, m)
                /\ m \in Range(hitlog)
                /\ Len(SelectSeq(q', LAMBDA x : x = m)) <= Len(SelectSeq(hitlog, LAMBDA x : x = m))
                /\ m.view \in Views
                /\ m.delay = DelayOf(m.view)
                /\ returned' = m.ts]_vars

\* C13, reached: a view with a "delay" of its own and one without have been hit with a
\* "delay" setting in place, and the last hit() returned its timestamp some time after
\* it had read the clock
C13_Witness ==
    /\ Len(q) = 2
    /\ \E i \in 1..2 : q[i].view = 2 /\ q[i].delay = 1
    /\ \E i \in 1..2 : q[i].view = 1 /\ q[i].delay = 3
    /\ returned = q[2].ts
    /\ returned > 0
    /\ now > returned
    /\ \A p \in Producers : hitting[p] = NoRequest

\* a load() has run its pass before: plugin_settings holds the settings object
Loaded == plugin_settings.loaded

\* the step did nothing to the Settings object
LoadIsNoOp ==
    /\ ~last'.pass
    /\ settings' = settings
    /\ previous_settings' = previous_settings
    /\ plugin_settings' = plugin_settings

\* C14 as stated: load() without force runs a pass only when no load has completed yet,
\* and is a no-op once one has; load(force=True) always runs one pass.
C14_LoadOnceLoaded ==
    [][\A force \in BOOLEAN :
        Load(force) =>
            (/\ force => last'.pass
             /\ (~force /\ last'.pass) => ~Loaded
             /\ (~force /\ Loaded) => LoadIsNoOp)]_vars

\* C14, amended: load() without force runs a pass exactly when settings is empty, and
\* is a no-op otherwise, so it is a no-op after every load that left a setting behind;
\* load(force=True) always runs one pass.
C14_LoadOnceNonEmpty ==
    [][\A force \in BOOLEAN :
        Load(force) =>
            (/\ force => last'.pass
             /\ ~force => (last'.pass <=> settings = EmptyDict)
             /\ ~last'.pass => LoadIsNoOp)]_vars

\* C14, reached: a load() after a completed load has done nothing
C14_Witness ==
    /\ Loaded
    /\ settings # EmptyDict
    /\ last.op = "load"
    /\ ~last.pass

\* the step in which the worker takes a message that is no request, no number and
\* not 'reload'
TakesOther == pc = "get" /\ q # <<>> /\ Head(q).kind \in OtherKinds /\ q' = Tail(q)

\* the step leaves both tables alone and the worker waiting for the next message
Ignores ==
    /\ last_runs' = last_runs
    /\ self_last_runs' = self_last_runs
    /\ running'
    /\ pc' = "get"

\* C15 as stated: every message that is no request tuple, no number and not 'reload' is
\* logged as an unknown message, changes neither table, fires no callback and leaves
\* the worker running.
C15_OtherLoggedAndIgnored ==
    [][TakesOther => (Ignores /\ log' = Append(log, Out("unknown", 0, 0, 0)))]_vars

\* C15, amended: every such message changes neither table, fires no callback and leaves
\* the worker running; a message that is no tuple, no number and no string is logged as
\* an unknown message, a string other than 'reload' is dropped without a line of log,
\* and a tuple that is no (view_id, timestamp, delay) is reported by the error handler.
C15_OtherIgnored ==
    [][TakesOther =>
        (/\ Ignores
         /\ Head(q).kind = "obj" => log' = Append(log, Out("unknown", 0, 0, 0))
         /\ Head(q).kind = "str" => log' = log
         /\ Head(q).kind = "badtuple" => log' = Append(log, Out("error", 0, 0, 0)))]_vars

\* C15, reached: the worker has taken a string other than 'reload' while a request was
\* pending and a view had been linted, and nothing but the lint is in the log
C15_Witness ==
    /\ pc = "get"
    /\ item.kind = "str"
    /\ last_runs # <<>>
    /\ DOMAIN self_last_runs # {}
    /\ \A e \in Range(log) : e.kind = "lint"

\* the step that is a delay(milliseconds), and the one in which the worker takes a number
CallsDelay == puts'.num = puts.num + 1
TakesNumber == pc = "get" /\ q # <<>> /\ Head(q).kind = "num" /\ q' = Tail(q)

\* C16: delay(milliseconds) puts milliseconds / 1000 seconds on the queue; when the
\* worker takes a number that is not negative it sleeps for that long with both tables
\* as they were; while it sleeps no callback fires, no message is taken and neither
\* table changes, and it is back at q.get only when the time has passed; messages are
\* only ever taken from the head of the queue, so those put during the pause are
\* processed after it in the order they were put.
C16_DelayPausesWorker ==
    /\ [][CallsDelay =>
            \E ms \in Milliseconds :
                /\ q' = Append(q, Msg("num", 0, 0, q'[Len(q')].delay))
                /\ q'[Len(q')].delay * 1000 = ms * UnitsPerSecond]_vars
    /\ [][(TakesNumber /\ Head(q).delay >= 0) =>
            (/\ pc' = "sleep"
             /\ timer' = Head(q).delay
             /\ last_runs' = last_runs
             /\ self_last_runs' = self_last_runs
             /\ log' = log)]_vars
    /\ [][pc = "sleep" =>
            (/\ log' = log
             /\ last_runs' = last_runs
             /\ self_last_runs' = self_last_runs
             /\ \/ q' = q
                \/ \E m \in {q'[i] : i \in 1..Len(q')} : q' = Append(q, m)
             /\ timer' >= timer - (now' - now)
             /\ pc' # "sleep" => (timer = 0 /\ pc' = "get"))]_vars
    /\ [][Len(q') < Len(q) => (q' = Tail(q) /\ item' = Head(q))]_vars

\* C16, reached: the worker has slept for 0.2 s while a request that came due stayed
\* pending and a request put during the pause stayed in the queue
C16_Witness ==
    /\ pc = "sleep"
    /\ item.kind = "num"
    /\ item.delay = 2
    /\ timer = 0
    /\ \E e \in Range(last_runs) : now > e.ts + e.delay
    /\ \E m \in Range(q) : m.kind = "tuple" /\ m.ts > 0

\* the step that is a copy()
IsCopy == ops' = ops + 1 /\ last'.op = "copy"

\* C17 as stated: previous_settings is empty at first, a set() leaves the settings as
\* they were before it there, and nothing else changes it, the reconciliation pass
\* included.
C17_PreviousOnlyBySet ==
    /\ (ops = 0 => previous_settings = EmptyDict)
    /\ [][IF IsSet THEN previous_settings' = settings
                   ELSE previous_settings' = previous_settings]_vars

\* C17, amended: previous_settings is empty at first, a set() leaves the settings as they
\* were before it there, a copy() the settings as they are, and nothing else changes it;
\* a reconciliation pass rewrites settings and leaves previous_settings as it was.
C17_PreviousOnlyBySetOrCopy ==
    /\ (ops = 0 => previous_settings = EmptyDict)
    /\ [][IF IsSet \/ IsCopy THEN previous_settings' = settings
                              ELSE previous_settings' = previous_settings]_vars
    /\ [][IsPass => (settings' = Merged /\ previous_settings' = previous_settings)]_vars

\* C17, reached: a pass has rewritten the settings after a set() or copy() had taken a
\* snapshot of loaded settings, and the snapshot is still there
C17_Witness ==
    /\ last.pass
    /\ ops = 3
    /\ previous_settings # EmptyDict
    /\ settings = Merged

\* the worker is in the Empty branch of loop(), scanning the copy of last_runs
InScan == pc \in {"scan", "fire", "lint"}

\* the items of the copy the scan has not come to yet
Unvisited == IF pc = "scan" THEN scan ELSE Tail(scan)

\* callbacks are invoked in the Empty branch only, which is entered only when q.get
\* found the queue empty for MIN_DELAY, and the scan passes over an item only when it
\* is not due
FiresOnlyWhenIdle ==
    /\ [][Len(SelectSeq(log', LAMBDA e : e.kind = "lint"))
            # Len(SelectSeq(log, LAMBDA e : e.kind = "lint")) => (pc = "fire" /\ pc' = "lint")]_vars
    /\ [][(~InScan /\ InScan') =>
            (pc = "get" /\ q = <<>> /\ timer = 0 /\ scan' = last_runs)]_vars
    /\ [][(pc = "scan" /\ pc' = "scan" /\ scan # <<>> /\ scan' = Tail(scan)) =>
            ~(now > Head(scan).ts + Head(scan).delay)]_vars

\* C18 as stated: callbacks fire only in the idle-timeout branch, entered only after the
\* queue was empty for MIN_DELAY; and the scan is not left while an item it has not
\* come to is due.
C18_IdleScanFiresAllDue ==
    /\ FiresOnlyWhenIdle
    /\ [][(InScan /\ ~InScan') =>
            \A e \in Range(Unvisited) : ~(now > e.ts + e.delay)]_vars

\* C18, amended: callbacks fire only in the idle-timeout branch, entered only after the
\* queue was empty for MIN_DELAY; the scan is left with items it has not come to only
\* when a callback raised, and those items are still pending.
C18_IdleScanFiresDueUnlessRaise ==
    /\ FiresOnlyWhenIdle
    /\ [][(InScan /\ ~InScan') =>
            (/\ ~LogsError => Unvisited = <<>>
             /\ \A e \in Range(Unvisited) : e \in Range(last_runs'))]_vars

\* C18, reached: a request is overdue and has not fired, the worker having taken a
\* later request of another view instead of timing out
C18_Witness ==
    /\ pc = "get"
    /\ log = <<>>
    /\ item.kind = "tuple"
    /\ \E e \in Range(last_runs) :
          /\ now > e.ts + e.delay
          /\ item.view # e.view
          /\ item.ts > e.ts

CallbackRaises == pc = "lint" /\ LogsError

\* C20: when the callback raises for a view, the view's request is gone from the pending
\* table and the view is in the last-run registry, the failure itself changes neither,
\* every request the scan had not come to is still pending, and the worker is back at
\* q.get; and no request is fired twice unless a reload came in between.
C20_RaiseLosesNoRequest ==
    /\ [][CallbackRaises =>
            (/\ \A e \in Range(last_runs') : e.view # Head(scan).view
             /\ Head(scan).view \in DOMAIN self_last_runs'
             /\ last_runs' = last_runs
             /\ self_last_runs' = self_last_runs
             /\ \A e \in Range(Tail(scan)) : e \in Range(last_runs')
             /\ pc' = "get")]_vars
    /\ [](\A i, j \in 1..Len(log) :
            (/\ i < j
             /\ log[i].kind = "lint"
             /\ log[j].kind = "lint"
             /\ log[i].view = log[j].view
             /\ log[i].ts = log[j].ts)
            => \E k \in (i + 1)..(j - 1) : log[k].kind = "reload")

\* C20, reached: the callback of one view raised in a scan in which another view was due
\* as well, and the other view's callback was invoked after that
C20_Witness ==
    \E j \in 1..(Len(log) - 2) :
        /\ log[j].kind = "lint"
        /\ log[j + 1].kind = "error"
        /\ log[j + 1].view = log[j].view
        /\ log[j + 2].kind = "lint"
        /\ log[j + 2].view # log[j].view
        /\ \E h \in Range(hitlog) :
              /\ h.view = log[j + 2].view
              /\ h.ts = log[j + 2].ts
              /\ log[j].at > h.ts + h.delay

====
